---------------------------- MODULE Spec2Model ----------------------------
(***************************************************************************)
(* Client-side connection lifecycle of the tasker collaboration front end: *)
(* GlobalWebSocketClient and BoardWebSocketClient of                       *)
(* frontend/src/lib-custom/global-websocket.ts, driven by their callers    *)
(* (connect, disconnect, send), by the browser's WebSocket events (open,   *)
(* message, error, close) and by the reconnect timers they set.            *)
(*                                                                         *)
(* One client instance is modelled.  `sockets` holds every WebSocket the   *)
(* instance created that can still matter: the one this.ws refers to, and  *)
(* those it no longer refers to whose close event is still to come (their  *)
(* handlers stay attached).  A closed socket nothing refers to is garbage  *)
(* and is dropped.  An event handler runs to completion, so each handler   *)
(* is one action.  A failed connection dispatches `error` and then `close` *)
(* (code 1006) in one browser task: between the two no other action runs.  *)
(***************************************************************************)
EXTENDS Naturals, Integers, Sequences, FiniteSets, Bags, TLC

VARIABLES
    kind,               \* which class the instance is: "global" or "board"
    sockets,            \* bag of WebSocket objects; the one with cur = TRUE is this.ws
    reconnectAttempts,  \* this.reconnectAttempts
    isConnecting,       \* this.isConnecting
    timers,             \* bag of pending setTimeout callbacks, each named by the close code that set it
    stopped,            \* history: disconnect() was called and connect() not called since
    lastClose,          \* history: event.code of the latest close event, 0 before the first
    lastDelay,          \* history: delay of the reconnect the latest close scheduled, 0 for none
    failCount,          \* history: retryable closures since the latest open, counted up to MaxFails
    prevFails,          \* history: failCount when the latest open happened, -1 before the first open
    autoAttempts,       \* history: sockets the reconnect timers created since the latest open, counted
                        \* up to MaxFails where the specification counts them
    received,           \* history: frames that arrived, in arrival order
    delivered,          \* history: arguments of the onMessage handler calls, in call order
    wire,               \* history: frames written to the transport by ws.send
    sent,               \* history: the messages of the send() calls that wrote a frame
    sendCalls,          \* history: number of send() calls made
    uncaught,           \* history: an exception left a method or handler of the client
    steps,              \* steps taken, counted where the specification limits them
    \* the server: sessions, room registry, user index, broadcast relay
    state,              \* connection state of each session
    pc,                 \* where the endpoint flow of each session is
    alive,              \* the peer of each session still holds the connection
    joined,             \* joined-rooms set of each session
    members,            \* member set of each room
    userIndex,          \* sessions of each user
    queue,              \* outbound queue of each session
    transport,          \* history: envelopes written to each session's transport, in order
    failures,           \* per-session count of deliveries that failed or were dropped
    cleanups,           \* history: how often leaveAll ran for each session
    calls,              \* the publish and notifyUser calls made, each with its fan-out still to do
    raised,             \* history: an error reached a broadcaster or left an endpoint
    \* the component that calls useBoardWebSocket
    phase,              \* "rendered" before its first effect, then "mounted", then "unmounted"
    boardId,            \* the boardId argument of the latest render
    clients,            \* the BoardWebSocketClient instances the effect created, in creation order
    client,             \* the hook's `client` state: an index of clients, 0 for null
    wsClient,           \* the instance the pending effect cleanup closes over, 0 for none
    isConnectedFlag,    \* the hook's `isConnected` state
    \* the providers that own the onMessage handlers
    boardUpdates,       \* BoardCollaborationProvider's boardUpdates state: the types received
    invalidated,        \* query keys passed to queryClient.invalidateQueries, in call order
    lastUpdateRef,      \* useRealtimeBoard's lastUpdateRef.current
    refetches,          \* calls of boardQuery.refetch() made by useRealtimeBoard's effect
    href,               \* window.location.href
    cleared,            \* history: the number of handler calls made when clearUpdates last ran
    updateTrigger,      \* WebSocketUpdateProvider's updateTrigger state
    boardsLastUpdateRef,\* useRealtimeBoards' lastUpdateRef.current
    boardsRefetches,    \* calls of boardsQuery.refetch() made by useRealtimeBoards' effect
    observed            \* history: the updateTrigger of the latest render, which the effects ran with

cli == <<kind, sockets, reconnectAttempts, isConnecting, timers, stopped,
         lastClose, lastDelay, failCount, prevFails, autoAttempts,
         received, delivered, wire, sent, sendCalls, uncaught>>

srv == <<state, pc, alive, joined, members, userIndex, queue, transport,
         failures, cleanups, calls, raised>>

hook == <<phase, boardId, clients, client, wsClient, isConnectedFlag>>

boards == <<updateTrigger, boardsLastUpdateRef, boardsRefetches, observed>>

app == <<boardUpdates, invalidated, lastUpdateRef, refetches, href, cleared, boards>>

vars == <<cli, steps, srv, hook, app>>

hist == <<lastClose, lastDelay, failCount, prevFails, autoAttempts>>
msgs == <<received, delivered, wire, sent, sendCalls, uncaught>>

-----------------------------------------------------------------------------
(* Bounds of the model. *)

\* sockets of one instance with a close event still to come
MaxLive == 2
\* reconnect timers pending at once
MaxTimers == 2
\* failCount counts up to this
MaxFails == 6
\* lifecycle steps of a behaviour of the messaging specification
MaxMsgSteps == 4
\* frames that arrive in the messaging specification
MaxFrames == 2
\* send() calls in the messaging specification
MaxSends == 2
\* envelopes an outbound queue of a session holds
MaxQueue == 2
\* publish and notifyUser calls of a behaviour of the server specification
MaxCalls == 2

\* steps of a behaviour of the server specification
MaxSrvSteps == 10

\* the connections, rooms and users of the server specification: A and B are
\* two tabs of user u1, C is a connection of user u2
Sessions == {"A", "B", "C"}
Rooms == {"board-1", "board-2"}
Users == {"u1", "u2"}

-----------------------------------------------------------------------------
(* Program constants. *)

maxReconnectAttempts == 5
reconnectDelay == 1000

\* WebSocket close codes the events carry: normal, abnormal (no close frame),
\* and the two application codes the clients test for
CloseCodes == {1000, 1006, 4001, 4003}

Pow2(n) == IF n <= 0 THEN 1 ELSE 2 ^ n

Min(a, b) == IF a < b THEN a ELSE b

\* what bounds a specification's behaviours: the sockets alive at once and,
\* where `limited`, the number of lifecycle steps
Budget(live, limited, n) ==
    [live |-> live, limited |-> limited, steps |-> n, count |-> FALSE]

\* budget b, with the sockets that the reconnect timers create counted
Counting(b) == [b EXCEPT !.count = TRUE]

\* what bounds a behaviour of the server: the sessions that connect, those
\* of them that may fail, the rooms each may join, the rooms and the users
\* that are published to and, where `limited`, the number of steps
SrvBudget(S, F, J, R, U, limited, n) ==
    [sessions |-> S, faulty |-> F, rooms |-> J, boards |-> R, users |-> U,
     limited |-> limited, steps |-> n]

Tick(b) ==
    IF b.limited
    THEN steps < b.steps /\ steps' = steps + 1
    ELSE UNCHANGED steps

-----------------------------------------------------------------------------
(* The WebSocket objects. *)

NewSocket ==
    [readyState |-> "CONNECTING",
     opened     |-> FALSE,     \* the open event was dispatched
     closed     |-> FALSE,     \* the close event was dispatched
     cur        |-> TRUE]      \* this.ws refers to it

Socks == BagToSet(sockets)

One(s) == SetToBag({s})

\* error was dispatched on s and its close event is next in the same task
Errored(s) == s.readyState = "CLOSED" /\ ~s.closed

Dispatching == \E s \in Socks : Errored(s)

isConnected == \E s \in Socks : s.cur /\ s.readyState = "OPEN"

\* sockets whose close event is still to come
Live(b) == BagCardinality(b) - Cardinality({s \in BagToSet(b) : s.closed})

\* a closed socket that this.ws does not refer to is dropped
Collect(b) ==
    LET dead == {s \in BagToSet(b) : s.closed /\ ~s.cur}
    IN  [s \in BagToSet(b) \ dead |-> b[s]]

\* this.ws is assigned another value: no socket is the current one
Release(b) ==
    LET S == BagToSet(b)
        T == {[s EXCEPT !.cur = FALSE] : s \in S}
    IN  [t \in T |-> (IF t \in S THEN b[t] ELSE 0)
                     + (IF [t EXCEPT !.cur = TRUE] \in S THEN b[[t EXCEPT !.cur = TRUE]] ELSE 0)]

\* socket s of the bag becomes n
Replace(b, s, n) == Collect((b (-) One(s)) (+) One(n))

\* sockets that are CONNECTING
Connecting(b) ==
    CopiesIn(NewSocket, b) + CopiesIn([NewSocket EXCEPT !.cur = FALSE], b)

\* WebSocket.close(): starts the closing handshake of an open socket, fails
\* a connecting one, and does nothing to a closing or closed one
wsClose(s) ==
    IF s.readyState \in {"CONNECTING", "OPEN"}
    THEN [s EXCEPT !.readyState = "CLOSING"]
    ELSE s

-----------------------------------------------------------------------------
(* Decisions of the close handler and the reconnect schedule. *)

\* the close codes of the `if` of onclose: GlobalWebSocketClient tests 1000
\* and 4001, BoardWebSocketClient tests 1000, 4001 and 4003
Retryable(k, code) ==
    /\ code # 1000
    /\ code # 4001
    /\ (k = "board" => code # 4003)

\* onclose without the test of the authentication codes
ShouldReconnectAuth(k, code, attempts) ==
    /\ code # 1000
    /\ attempts < maxReconnectAttempts

\* onclose without the test of the normal close code
ShouldReconnectNormal(k, code, attempts) ==
    /\ code # 4001
    /\ (k = "board" => code # 4003)
    /\ attempts < maxReconnectAttempts

\* onclose without the attempt limit
ShouldReconnectForever(k, code, attempts) ==
    Retryable(k, code)

\* onclose where GlobalWebSocketClient does not test the code 4001
ShouldReconnectGlobalNoAuth(k, code, attempts) ==
    /\ code # 1000
    /\ (k = "board" => code \notin {4001, 4003})
    /\ attempts < maxReconnectAttempts

\* the `if` of onclose: the close code and the attempt limit
ShouldReconnect(k, code, attempts) ==
    /\ Retryable(k, code)
    /\ attempts < maxReconnectAttempts

\* scheduleReconnect with the exponent off by one
scheduleReconnectLate(attempts) ==
    [attempts |-> attempts + 1,
     delay    |-> reconnectDelay * Pow2(attempts + 1)]

\* scheduleReconnect counting a failure twice
scheduleReconnectTwice(attempts) ==
    [attempts |-> attempts + 2,
     delay    |-> reconnectDelay * Pow2((attempts + 2) - 1)]

\* scheduleReconnect(): this.reconnectAttempts++ and the setTimeout delay
\* reconnectDelay * Math.pow(2, this.reconnectAttempts - 1)
scheduleReconnect(attempts) ==
    [attempts |-> attempts + 1,
     delay    |-> reconnectDelay * Pow2((attempts + 1) - 1)]

-----------------------------------------------------------------------------
(* The methods and handlers of the connection lifecycle. *)

\* the body of connect(); `cap` bounds the sockets alive at once.  When
\* `new WebSocket` throws, the catch block restores isConnecting and no field
\* has changed: that call is a step that changes nothing.
connect(cap) ==
    IF isConnecting \/ isConnected
    THEN UNCHANGED <<sockets, isConnecting>>
    ELSE /\ Live(sockets) < cap
         /\ isConnecting' = TRUE
         /\ sockets' = Collect(Release(sockets)) (+) One(NewSocket)

\* a caller calls connect()
Connect(b) ==
    /\ ~Dispatching
    /\ Tick(b)
    /\ connect(b.live)
    /\ stopped' = FALSE
    /\ UNCHANGED <<kind, reconnectAttempts, timers>>
    /\ UNCHANGED hist
    /\ UNCHANGED msgs
    /\ UNCHANGED <<srv, hook, app>>

\* a caller calls disconnect()
Disconnect(b) ==
    /\ ~Dispatching
    /\ Tick(b)
    /\ IF \E s \in Socks : s.cur
       THEN \E s \in Socks :
               /\ s.cur
               /\ sockets' = Replace(sockets, s, [wsClose(s) EXCEPT !.cur = FALSE])
       ELSE UNCHANGED sockets
    /\ stopped' = TRUE
    /\ UNCHANGED <<kind, reconnectAttempts, isConnecting, timers>>
    /\ UNCHANGED hist
    /\ UNCHANGED msgs
    /\ UNCHANGED <<srv, hook, app>>

\* the setTimeout callback of scheduleReconnect runs
TimerFire(t, b) ==
    /\ ~Dispatching
    /\ Tick(b)
    /\ BagIn(t, timers)
    /\ timers' = timers (-) One(t)
    /\ connect(b.live)
    /\ autoAttempts' = IF b.count /\ Connecting(sockets') > Connecting(sockets)
                       THEN Min(autoAttempts + 1, MaxFails)
                       ELSE autoAttempts
    /\ UNCHANGED <<kind, reconnectAttempts, stopped>>
    /\ UNCHANGED <<lastClose, lastDelay, failCount, prevFails>>
    /\ UNCHANGED msgs
    /\ UNCHANGED <<srv, hook, app>>

\* onopen that leaves this.reconnectAttempts as it is
OnOpenNoReset(s, b) ==
    /\ ~Dispatching
    /\ Tick(b)
    /\ s.readyState = "CONNECTING"
    /\ sockets' = Replace(sockets, s, [s EXCEPT !.readyState = "OPEN", !.opened = TRUE])
    /\ isConnecting' = FALSE
    /\ prevFails' = failCount
    /\ failCount' = 0
    /\ autoAttempts' = 0
    /\ UNCHANGED <<kind, reconnectAttempts, timers, stopped, lastClose, lastDelay>>
    /\ UNCHANGED msgs
    /\ UNCHANGED <<srv, hook, app>>

\* ws.onopen of socket s
OnOpen(s, b) ==
    /\ ~Dispatching
    /\ Tick(b)
    /\ s.readyState = "CONNECTING"
    /\ sockets' = Replace(sockets, s, [s EXCEPT !.readyState = "OPEN", !.opened = TRUE])
    /\ isConnecting' = FALSE
    /\ reconnectAttempts' = 0
    /\ prevFails' = failCount
    /\ failCount' = 0
    /\ autoAttempts' = 0
    /\ UNCHANGED <<kind, timers, stopped, lastClose, lastDelay>>
    /\ UNCHANGED msgs
    /\ UNCHANGED <<srv, hook, app>>

\* the connection of socket s fails; ws.onerror of s
OnError(s, b) ==
    /\ ~Dispatching
    /\ Tick(b)
    /\ s.readyState # "CLOSED"
    /\ ShouldReconnect(kind, 1006, reconnectAttempts) => BagCardinality(timers) < MaxTimers
    /\ sockets' = Replace(sockets, s, [s EXCEPT !.readyState = "CLOSED"])
    /\ isConnecting' = FALSE
    /\ UNCHANGED <<kind, reconnectAttempts, timers, stopped>>
    /\ UNCHANGED hist
    /\ UNCHANGED msgs
    /\ UNCHANGED <<srv, hook, app>>

\* ws.onclose of socket s with event.code = code: after an error (1006), or
\* the close of an established connection with the code the peer sent
OnClose(s, code, b) ==
    /\ \/ Errored(s) /\ code = 1006 /\ UNCHANGED steps
       \/ /\ ~Dispatching
          /\ Tick(b)
          /\ s.opened
          /\ s.readyState \in {"OPEN", "CLOSING"}
    /\ isConnecting' = FALSE
    /\ sockets' = Replace(sockets, s, [readyState |-> "CLOSED", opened |-> s.opened,
                                       closed |-> TRUE, cur |-> s.cur])
    /\ LET go == ShouldReconnect(kind, code, reconnectAttempts)
           r  == scheduleReconnect(reconnectAttempts)
       IN  /\ go => BagCardinality(timers) < MaxTimers
           /\ reconnectAttempts' = IF go THEN r.attempts ELSE reconnectAttempts
           /\ timers' = IF go THEN timers (+) One(code) ELSE timers
           /\ lastDelay' = IF go THEN r.delay ELSE 0
    /\ lastClose' = code
    /\ failCount' = IF Retryable(kind, code) THEN Min(failCount + 1, MaxFails) ELSE failCount
    /\ UNCHANGED <<kind, stopped, prevFails, autoAttempts>>
    /\ UNCHANGED msgs
    /\ UNCHANGED <<srv, hook, app>>

-----------------------------------------------------------------------------
(* The lifecycle specification. *)

Fresh ==
    /\ kind \in {"global", "board"}
    /\ sockets = EmptyBag
    /\ reconnectAttempts = 0
    /\ isConnecting = FALSE
    /\ timers = EmptyBag
    /\ stopped = FALSE
    /\ lastClose = 0
    /\ lastDelay = 0
    /\ failCount = 0
    /\ prevFails = -1
    /\ autoAttempts = 0
    /\ received = << >>
    /\ wire = << >>
    /\ sent = << >>
    /\ sendCalls = 0
    /\ uncaught = FALSE
    /\ steps = 0
    /\ state = [s \in Sessions |-> "CONNECTING"]
    /\ pc = [s \in Sessions |-> "request"]
    /\ alive = [s \in Sessions |-> TRUE]
    /\ joined = [s \in Sessions |-> {}]
    /\ members = [r \in Rooms |-> {}]
    /\ userIndex = [u \in Users |-> {}]
    /\ queue = [s \in Sessions |-> << >>]
    /\ transport = [s \in Sessions |-> << >>]
    /\ failures = [s \in Sessions |-> 0]
    /\ cleanups = [s \in Sessions |-> 0]
    /\ calls = << >>
    /\ raised = FALSE
    /\ phase = "rendered"
    /\ boardId = ""
    /\ clients = << >>
    /\ client = 0
    /\ wsClient = 0
    /\ isConnectedFlag = FALSE
    /\ invalidated = << >>
    /\ lastUpdateRef = 0
    /\ refetches = 0
    /\ href = "/board"
    /\ cleared = 0
    /\ updateTrigger = 0
    /\ boardsLastUpdateRef = 0
    /\ boardsRefetches = 0
    /\ observed = 0

\* the state after construction: no handler call was made yet
Init ==
    /\ Fresh
    /\ delivered = << >>
    /\ boardUpdates = << >>

Lifecycle(b) ==
    \/ Connect(b)
    \/ Disconnect(b)
    \/ \E t \in BagToSet(timers) : TimerFire(t, b)
    \/ \E s \in Socks : OnOpen(s, b)
    \/ \E s \in Socks : OnError(s, b)
    \/ \E s \in Socks, code \in CloseCodes : OnClose(s, code, b)

Next == Lifecycle(Budget(MaxLive, FALSE, 0))

Spec == Init /\ [][Next]_vars

\* the lifecycle with the automatic attempts counted
NextRetry == Lifecycle(Counting(Budget(MaxLive, FALSE, 0)))

SpecRetry == Init /\ [][NextRetry]_vars

-----------------------------------------------------------------------------
(* The wire format: JSON.parse and JSON.stringify.                         *)
(* A frame is the sequence of JSON tokens of its text.  Values are the     *)
(* scalars and the objects whose members are scalars (the flat envelopes). *)

Tok(c, s, n) == [c |-> c, s |-> s, n |-> n]
Punct(c) == Tok(c, "", 0)       \* one of { } : ,
StrTok(s) == Tok("str", s, 0)   \* a string literal
NumTok(n) == Tok("num", "", n)  \* a number literal
LitTok(s) == Tok("lit", s, 0)   \* a bare word: null, true, false, or anything else

Scalar(t, s, n) == [t |-> t, s |-> s, n |-> n]
Value(t, s, n, o) == [t |-> t, s |-> s, n |-> n, o |-> o]
Null == Scalar("null", "", 0)
Str(s) == Scalar("str", s, 0)
Num(n) == Scalar("num", "", n)
Bool(s) == Scalar("bool", s, 0)
\* an object: its members in insertion order, each key once
Obj(o) == Value("obj", "", 0, o)
Top(v) == Value(v.t, v.s, v.n, << >>)
Undefined == Value("undefined", "", 0, << >>)

IsScalarTok(k) ==
    \/ k.c \in {"str", "num"}
    \/ k.c = "lit" /\ k.s \in {"null", "true", "false"}

ScalarOf(k) ==
    CASE k.c = "str" -> Str(k.s)
      [] k.c = "num" -> Num(k.n)
      [] k.c = "lit" /\ k.s = "null" -> Null
      [] OTHER -> Bool(k.s)

\* o with member key set to v: a repeated key keeps its place and takes the later value
SetMember(o, key, v) ==
    IF \E i \in DOMAIN o : o[i].k = key
    THEN [i \in DOMAIN o |-> IF o[i].k = key THEN [k |-> key, v |-> v] ELSE o[i]]
    ELSE Append(o, [k |-> key, v |-> v])

RECURSIVE ParseMembers(_, _)
ParseMembers(m, acc) ==
    IF Len(m) < 3 \/ m[1].c # "str" \/ m[2].c # ":" \/ ~IsScalarTok(m[3])
    THEN [ok |-> FALSE, val |-> Undefined]
    ELSE LET acc2 == SetMember(acc, m[1].s, ScalarOf(m[3]))
         IN  IF Len(m) = 3
             THEN [ok |-> TRUE, val |-> Obj(acc2)]
             ELSE IF m[4].c = "," /\ Len(m) > 4
                  THEN ParseMembers(SubSeq(m, 5, Len(m)), acc2)
                  ELSE [ok |-> FALSE, val |-> Undefined]

\* JSON.parse(text): ok = FALSE stands for the SyntaxError it throws
JSONParse(text) ==
    IF Len(text) = 1 /\ IsScalarTok(text[1])
    THEN [ok |-> TRUE, val |-> Top(ScalarOf(text[1]))]
    ELSE IF Len(text) >= 2 /\ text[1].c = "{" /\ text[Len(text)].c = "}"
         THEN IF Len(text) = 2
              THEN [ok |-> TRUE, val |-> Obj(<< >>)]
              ELSE ParseMembers(SubSeq(text, 2, Len(text) - 1), << >>)
         ELSE [ok |-> FALSE, val |-> Undefined]

ScalarTok(v) ==
    CASE v.t = "str" -> StrTok(v.s)
      [] v.t = "num" -> NumTok(v.n)
      [] v.t = "null" -> LitTok("null")
      [] OTHER -> LitTok(v.s)

RECURSIVE StringifyMembers(_)
StringifyMembers(o) ==
    IF o = << >> THEN << >>
    ELSE <<StrTok(o[1].k), Punct(":"), ScalarTok(o[1].v)>>
         \o (IF Len(o) = 1 THEN << >> ELSE <<Punct(",")>> \o StringifyMembers(Tail(o)))

\* JSON.stringify that writes every scalar as a string literal
JSONStringifyQuoted(v) ==
    LET quote(k) == IF k.c \in {"num", "lit"} THEN StrTok("x") ELSE k
        text == IF v.t = "obj"
                THEN <<Punct("{")>> \o StringifyMembers(v.o) \o <<Punct("}")>>
                ELSE <<ScalarTok(v)>>
    IN  [i \in DOMAIN text |-> quote(text[i])]

\* JSON.stringify(value)
JSONStringify(v) ==
    IF v.t = "obj"
    THEN <<Punct("{")>> \o StringifyMembers(v.o) \o <<Punct("}")>>
    ELSE <<ScalarTok(v)>>

-----------------------------------------------------------------------------
(* Frames that arrive and messages that callers send. *)

\* {"type":"card_created","card_id":7}
FrameKnown == <<Punct("{"), StrTok("type"), Punct(":"), StrTok("card_created"), Punct(","),
                StrTok("card_id"), Punct(":"), NumTok(7), Punct("}")>>
\* {"type":"zzz"}: a type no handler knows
FrameUnknown == <<Punct("{"), StrTok("type"), Punct(":"), StrTok("zzz"), Punct("}")>>
\* null: valid JSON that is no envelope
FrameNull == <<LitTok("null")>>
\* {"type":  a truncated text
FrameBad == <<Punct("{"), StrTok("type"), Punct(":")>>

\* {"type":"user_notification"}: what the server sends on the notification channel
FrameNotification == <<Punct("{"), StrTok("type"), Punct(":"), StrTok("user_notification"), Punct("}")>>

Frames == {FrameKnown, FrameUnknown, FrameNotification, FrameNull, FrameBad}

\* what sendTypingIndicator and sendCardMove pass to send(), flattened
Messages == {Obj(<<[k |-> "type", v |-> Str("user_typing")]>>),
             Obj(<<[k |-> "type", v |-> Str("card_move")],
                   [k |-> "new_position", v |-> Num(2)]>>)}

-----------------------------------------------------------------------------
(* Receiving and sending. *)

\* v.key of JavaScript for a decoded value v that is not null
Member(v, key) ==
    IF v.t = "obj" /\ \E i \in DOMAIN v.o : v.o[i].k = key
    THEN LET i == CHOOSE j \in DOMAIN v.o : v.o[j].k = key
         IN  Top(v.o[i].v)
    ELSE Undefined

\* refreshNotifications(): the two invalidateQueries calls
refreshNotifications(q) == q \o <<"notifications", "notifications/unread-count">>

\* the onMessage option NotificationProvider gives its GlobalWebSocketClient;
\* reading message.type of null throws, which ws.onmessage catches
NotificationOnMessage(message) ==
    /\ invalidated' = IF Member(message, "type") = Top(Str("user_notification"))
                      THEN refreshNotifications(invalidated)
                      ELSE invalidated
    /\ UNCHANGED <<boardUpdates, lastUpdateRef, refetches, href>>

\* prev.slice(-n)
Slice(q, n) == IF Len(q) <= n THEN q ELSE SubSeq(q, Len(q) - n + 1, Len(q))

\* if (v) of JavaScript
Truthy(v) ==
    CASE v.t = "bool" -> v.s = "true"
      [] v.t = "num"  -> v.n # 0
      [] v.t = "str"  -> v.s # ""
      [] v.t = "obj"  -> TRUE
      [] OTHER        -> FALSE

\* the entries the update log keeps: prev.slice(-49) and the new one
maxUpdates == 50

\* handleMessage that appends to the log without dropping the oldest entry
handleMessageNoSlice(message) ==
    /\ boardUpdates' = IF message.t = "null"
                       THEN boardUpdates
                       ELSE Append(boardUpdates, Member(message, "type"))
    /\ href' = IF /\ Member(message, "type") = Top(Str("board_deleted"))
                  /\ Truthy(Member(message, "redirect"))
               THEN "/"
               ELSE href

\* handleMessage that navigates on board_deleted without testing the flag
handleMessageAnyDeleted(message) ==
    /\ boardUpdates' = IF message.t = "null"
                       THEN boardUpdates
                       ELSE Append(Slice(boardUpdates, 49), Member(message, "type"))
    /\ href' = IF Member(message, "type") = Top(Str("board_deleted")) THEN "/" ELSE href

\* BoardCollaborationProvider.handleMessage, the onMessage option of the
\* board client: it records the update, calls onBoardUpdate (BoardPage's
\* handler logs it), logs by type and, for board_deleted with a redirect
\* member, assigns window.location.href.  Reading message.type of null
\* throws before anything is recorded, which ws.onmessage catches.
handleMessage(message) ==
    /\ boardUpdates' = IF message.t = "null"
                       THEN boardUpdates
                       ELSE Append(Slice(boardUpdates, 49), Member(message, "type"))
    /\ href' = IF /\ Member(message, "type") = Top(Str("board_deleted"))
                  /\ Truthy(Member(message, "redirect"))
               THEN "/"
               ELSE href

\* the object useBoardCollaboration() returns has no forceUpdate member
forceUpdate == Undefined

NaN == Value("nan", "", 0, << >>)

\* a + n of JavaScript for a number n
Plus(a, n) == IF a.t = "num" THEN Top(Num(a.n + n)) ELSE NaN

\* a > n of JavaScript for a number n: false for NaN
GreaterThan(a, n) == a.t = "num" /\ a.n > n

\* the effect of useRealtimeBoard that refetches the board query, run by
\* the render that follows a state update
refetchEffect ==
    LET currentUpdate == Plus(forceUpdate, updateTrigger)
    IN  IF GreaterThan(currentUpdate, lastUpdateRef)
        THEN /\ lastUpdateRef' = currentUpdate.n
             /\ refetches' = refetches + 1
        ELSE UNCHANGED <<lastUpdateRef, refetches>>

\* this.options.onMessage?.(message) of the client of kind k
onMessageOption(k, message) ==
    /\ IF k = "global"
       THEN NotificationOnMessage(message)
       ELSE /\ handleMessage(message)
            /\ refetchEffect
            /\ UNCHANGED invalidated
    /\ UNCHANGED <<cleared, boards>>

\* the handlers of both providers read message.type first: a TypeError when
\* the decoded value is null
Throws(message) == message.t = "null"

\* onmessage with the handler call after the try block: what the handler
\* throws leaves ws.onmessage
onmessageHandlerOutside(data) ==
    LET r == JSONParse(data)
    IN  /\ delivered' = IF r.ok THEN Append(delivered, r.val) ELSE delivered
        /\ uncaught' = (uncaught \/ (r.ok /\ Throws(r.val)))

\* onmessage that passes on only the envelopes of a type it knows
onmessageKnownOnly(data) ==
    LET r == JSONParse(data)
        known == /\ r.ok
                 /\ r.val.t = "obj"
                 /\ \E i \in DOMAIN r.val.o :
                        r.val.o[i].k = "type" /\ r.val.o[i].v = Str("card_created")
    IN  /\ delivered' = IF known THEN Append(delivered, r.val) ELSE delivered
        /\ UNCHANGED uncaught

\* onmessage without the try block: the SyntaxError of JSON.parse leaves the handler
onmessageNoTry(data) ==
    LET r == JSONParse(data)
    IN  /\ delivered' = IF r.ok THEN Append(delivered, r.val) ELSE delivered
        /\ uncaught' = (uncaught \/ ~r.ok)

\* ws.onmessage: JSON.parse and the handler call inside one try block; the
\* catch block logs
onmessage(data) ==
    LET r == JSONParse(data)
    IN  /\ delivered' = IF r.ok THEN Append(delivered, r.val) ELSE delivered
        /\ UNCHANGED uncaught

\* a frame arrives on socket s: the message event is dispatched while the
\* socket is OPEN; what arrives once close() was called or the connection
\* ended is discarded by the platform
OnMessage(s, data) ==
    /\ ~Dispatching
    /\ s.opened
    /\ s.readyState = "OPEN"
    /\ Len(received) < MaxFrames
    /\ received' = Append(received, data)
    /\ onmessage(data)
    /\ IF Len(delivered') > Len(delivered)
       THEN onMessageOption(kind, delivered'[Len(delivered')])
       ELSE UNCHANGED app
    /\ UNCHANGED <<kind, sockets, reconnectAttempts, isConnecting, timers, stopped>>
    /\ UNCHANGED hist
    /\ UNCHANGED <<wire, sent, sendCalls, steps>>
    /\ UNCHANGED <<srv, hook>>

\* WebSocket.send(data) on socket s: throws InvalidStateError while
\* CONNECTING, transmits while OPEN, discards once CLOSING or CLOSED
wsSend(s, data) ==
    /\ wire' = IF s.readyState = "OPEN" THEN Append(wire, data) ELSE wire
    /\ uncaught' = (uncaught \/ s.readyState = "CONNECTING")

\* send that tests this.ws and not its readyState
sendUnguarded(message) ==
    IF \E s \in Socks : s.cur
    THEN \E s \in Socks : s.cur /\ wsSend(s, JSONStringify(message))
    ELSE UNCHANGED <<wire, uncaught>>

\* the body of send(message)
send(message) ==
    IF isConnected
    THEN \E s \in Socks : s.cur /\ wsSend(s, JSONStringify(message))
    ELSE UNCHANGED <<wire, uncaught>>

\* a caller calls send(message)
Send(message) ==
    /\ ~Dispatching
    /\ sendCalls < MaxSends
    /\ sendCalls' = sendCalls + 1
    /\ send(message)
    /\ sent' = IF Len(wire') > Len(wire) THEN Append(sent, message) ELSE sent
    /\ UNCHANGED <<kind, sockets, reconnectAttempts, isConnecting, timers, stopped>>
    /\ UNCHANGED hist
    /\ UNCHANGED <<received, delivered, steps>>
    /\ UNCHANGED <<srv, hook, app>>

-----------------------------------------------------------------------------
(* The messaging specification: the lifecycle, limited to MaxMsgSteps      *)
(* steps, with frames arriving and callers sending.                        *)

NextMsg ==
    \/ Lifecycle(Budget(MaxLive, TRUE, MaxMsgSteps))
    \/ \E s \in Socks, data \in Frames : OnMessage(s, data)
    \/ \E message \in Messages : Send(message)

SpecMsg == Init /\ [][NextMsg]_vars

-----------------------------------------------------------------------------
(* The codec specification: after the lifecycle steps of a behaviour the   *)
(* client sends valid envelopes, and the frames it wrote come back to it   *)
(* as the server relays them.                                              *)

\* lifecycle steps of a behaviour of the codec specification
MaxCodecSteps == 3

\* the values of the fields of an envelope: numbers, strings, booleans, null
FieldValues == {Num(7), Str("x"), Bool("true"), Bool("false"), Null}

\* the valid envelopes: a string type alone, with one more field of every
\* kind of value, and with two more fields
ValidEnvelopes ==
    {Obj(<<[k |-> "type", v |-> Str(ty)]>>) : ty \in {"user_typing", "card_move"}}
    \cup {Obj(<<[k |-> "type", v |-> Str("card_move")], [k |-> "card_id", v |-> x]>>) :
             x \in FieldValues}
    \cup {Obj(<<[k |-> "card_id", v |-> x], [k |-> "type", v |-> Str("card_update")]>>) :
             x \in FieldValues}
    \cup {Obj(<<[k |-> "type", v |-> Str("card_move")], [k |-> "new_list_id", v |-> Str("x")],
                [k |-> "new_position", v |-> Num(2)]>>)}

NextCodec ==
    \/ Lifecycle(Budget(MaxLive, TRUE, MaxCodecSteps))
    \/ steps = MaxCodecSteps /\ \E message \in ValidEnvelopes : Send(message)
    \/ steps = MaxCodecSteps /\ \E s \in Socks, i \in DOMAIN wire : OnMessage(s, wire[i])

SpecCodec == Init /\ [][NextCodec]_vars

-----------------------------------------------------------------------------
(* The hook useBoardWebSocket.  Each run of its effect creates a           *)
(* BoardWebSocketClient whose onOpen, onClose and onError options set the  *)
(* hook's isConnected state, and connects it; the cleanup of a run calls   *)
(* disconnect() on the instance that run created.  An instance is the      *)
(* record of its fields, its sockets a bag as above; the handlers of every *)
(* socket of every instance stay attached until its close event.           *)

\* instances the effect creates in a behaviour
MaxClients == 2

\* steps of a behaviour of the hook specification
MaxHookSteps == 8

\* the boardId a render passes: a board, or the empty string
BoardIds == {"", "board-1", "board-2"}

\* new BoardWebSocketClient(boardId, options)
BoardWebSocketClient(id) ==
    [boardId |-> id, sockets |-> EmptyBag, reconnectAttempts |-> 0,
     isConnecting |-> FALSE, timers |-> 0]

\* isConnected() of instance c
clientIsConnected(c) ==
    \E s \in BagToSet(c.sockets) : s.cur /\ s.readyState = "OPEN"

\* connect() of instance c creates a socket
Creates(c) == ~(c.isConnecting \/ clientIsConnected(c))

\* connect() of instance c
clientConnect(c) ==
    IF Creates(c)
    THEN [c EXCEPT !.isConnecting = TRUE,
                   !.sockets = Collect(Release(c.sockets)) (+) One(NewSocket)]
    ELSE c

\* disconnect() of instance c
clientDisconnect(c) ==
    IF \E s \in BagToSet(c.sockets) : s.cur
    THEN LET s == CHOOSE x \in BagToSet(c.sockets) : x.cur
         IN  [c EXCEPT !.sockets = Replace(c.sockets, s, [wsClose(s) EXCEPT !.cur = FALSE])]
    ELSE c

\* setIsConnected(v): a state update of a component that was unmounted is
\* dropped
setIsConnected(v) ==
    isConnectedFlag' = IF phase = "mounted" THEN v ELSE isConnectedFlag

\* the cleanup function the latest run of the effect returned, if it
\* returned one: wsClient.disconnect()
cleanup(cs) ==
    IF wsClient = 0 THEN cs ELSE [cs EXCEPT ![wsClient] = clientDisconnect(cs[wsClient])]

HookSocks(i) == BagToSet(clients[i].sockets)

\* error was dispatched on a socket of some instance and its close event is
\* next in the same task
HookDispatching == \E i \in DOMAIN clients : \E s \in HookSocks(i) : Errored(s)

\* the component renders with boardId = id and the effect runs: after the
\* first render, and after a render with another boardId (the cleanup of
\* the previous run first)
RunEffect(id, b) ==
    /\ ~HookDispatching
    /\ Tick(b)
    /\ phase \in {"rendered", "mounted"}
    /\ phase = "mounted" => id # boardId
    /\ id # "" => Len(clients) < MaxClients
    /\ phase' = "mounted"
    /\ boardId' = id
    /\ IF id = ""
       THEN /\ clients' = cleanup(clients)
            /\ wsClient' = 0
            /\ UNCHANGED client
       ELSE /\ clients' = Append(cleanup(clients), clientConnect(BoardWebSocketClient(id)))
            /\ wsClient' = Len(clients) + 1
            /\ client' = Len(clients) + 1
    /\ UNCHANGED isConnectedFlag
    /\ UNCHANGED <<cli, srv, app>>

\* the component unmounts: the cleanup of the latest run
Unmount(b) ==
    /\ ~HookDispatching
    /\ Tick(b)
    /\ phase = "mounted"
    /\ phase' = "unmounted"
    /\ clients' = cleanup(clients)
    /\ wsClient' = 0
    /\ UNCHANGED <<boardId, client, isConnectedFlag>>
    /\ UNCHANGED <<cli, srv, app>>

\* ws.onopen of socket s of instance i, which calls the hook's onOpen
HookOnOpen(i, s, b) ==
    /\ ~HookDispatching
    /\ Tick(b)
    /\ s.readyState = "CONNECTING"
    /\ LET c == clients[i]
       IN  clients' = [clients EXCEPT ![i] =
               [c EXCEPT !.sockets = Replace(c.sockets, s,
                                             [s EXCEPT !.readyState = "OPEN", !.opened = TRUE]),
                         !.isConnecting = FALSE,
                         !.reconnectAttempts = 0]]
    /\ setIsConnected(TRUE)
    /\ UNCHANGED <<phase, boardId, client, wsClient>>
    /\ UNCHANGED <<cli, srv, app>>

\* the connection of socket s of instance i fails; ws.onerror of s, which
\* calls the hook's onError
HookOnError(i, s, b) ==
    /\ ~HookDispatching
    /\ Tick(b)
    /\ s.readyState # "CLOSED"
    /\ LET c == clients[i]
       IN  /\ ShouldReconnect("board", 1006, c.reconnectAttempts) => c.timers < MaxTimers
           /\ clients' = [clients EXCEPT ![i] =
                  [c EXCEPT !.sockets = Replace(c.sockets, s, [s EXCEPT !.readyState = "CLOSED"]),
                            !.isConnecting = FALSE]]
    /\ setIsConnected(FALSE)
    /\ UNCHANGED <<phase, boardId, client, wsClient>>
    /\ UNCHANGED <<cli, srv, app>>

\* ws.onclose of socket s of instance i with event.code = code, which calls
\* the hook's onClose
HookOnClose(i, s, code, b) ==
    /\ \/ Errored(s) /\ code = 1006 /\ UNCHANGED steps
       \/ /\ ~HookDispatching
          /\ Tick(b)
          /\ s.opened
          /\ s.readyState \in {"OPEN", "CLOSING"}
    /\ LET c  == clients[i]
           go == ShouldReconnect("board", code, c.reconnectAttempts)
           r  == scheduleReconnect(c.reconnectAttempts)
       IN  /\ go => c.timers < MaxTimers
           /\ clients' = [clients EXCEPT ![i] =
                  [c EXCEPT !.sockets = Replace(c.sockets, s,
                                                [readyState |-> "CLOSED", opened |-> s.opened,
                                                 closed |-> TRUE, cur |-> s.cur]),
                            !.isConnecting = FALSE,
                            !.reconnectAttempts = IF go THEN r.attempts ELSE c.reconnectAttempts,
                            !.timers = IF go THEN c.timers + 1 ELSE c.timers]]
    /\ setIsConnected(FALSE)
    /\ UNCHANGED <<phase, boardId, client, wsClient>>
    /\ UNCHANGED <<cli, srv, app>>

\* a setTimeout callback of scheduleReconnect of instance i runs
HookTimer(i, b) ==
    /\ ~HookDispatching
    /\ Tick(b)
    /\ clients[i].timers > 0
    /\ LET c == [clients[i] EXCEPT !.timers = clients[i].timers - 1]
       IN  /\ Creates(c) => Live(c.sockets) < b.live
           /\ clients' = [clients EXCEPT ![i] = clientConnect(c)]
    /\ UNCHANGED <<phase, boardId, client, wsClient, isConnectedFlag>>
    /\ UNCHANGED <<cli, srv, app>>

InitHook == Init /\ kind = "board"

Hook(b) ==
    \/ \E id \in BoardIds : RunEffect(id, b)
    \/ Unmount(b)
    \/ \E i \in DOMAIN clients : \E s \in HookSocks(i) : HookOnOpen(i, s, b)
    \/ \E i \in DOMAIN clients : \E s \in HookSocks(i) : HookOnError(i, s, b)
    \/ \E i \in DOMAIN clients : \E s \in HookSocks(i), code \in CloseCodes : HookOnClose(i, s, code, b)
    \/ \E i \in DOMAIN clients : HookTimer(i, b)

NextHook == Hook(Budget(MaxLive, TRUE, MaxHookSteps))

SpecHook == InitHook /\ [][NextHook]_vars

-----------------------------------------------------------------------------
(* The providers and the refetch hooks on their own: the board handler     *)
(* called with decoded values, clearUpdates, triggerUpdate, and the        *)
(* renders that run the refetch effects of useRealtimeBoard and            *)
(* useRealtimeBoards.  A behaviour starts with an empty update log or with *)
(* the log that 49 handler calls leave, and ends when the page is left.    *)

\* steps of a behaviour of the provider specification
MaxAppSteps == 4

Envelope(type) == Obj(<<[k |-> "type", v |-> Str(type)]>>)

WithRedirect(type, flag) ==
    Obj(<<[k |-> "type", v |-> Str(type)], [k |-> "redirect", v |-> Bool(flag)]>>)

\* the decoded values the handler is called with: envelopes of a known and
\* of an unknown type, board_deleted with and without the redirect flag, the
\* flag on another type, an object without type, and null
Values ==
    {Envelope("card_created"), Envelope("zzz"), Envelope("board_deleted"),
     WithRedirect("board_deleted", "true"), WithRedirect("board_deleted", "false"),
     WithRedirect("card_created", "true"),
     Obj(<<[k |-> "card_id", v |-> Num(7)]>>), Top(Null)}

\* the calls that filled the log before a behaviour starts
Prefill(n) ==
    [i \in 1..n |-> IF i % 2 = 1 THEN Envelope("card_created") ELSE Envelope("zzz")]

\* the type members of the values of q that are not null
RECURSIVE Types(_)
Types(q) ==
    IF q = << >> THEN << >>
    ELSE (IF Head(q).t = "null" THEN << >> ELSE <<Member(Head(q), "type")>>)
         \o Types(Tail(q))

\* the effect of useRealtimeBoards that refetches the boards query
boardsRefetchEffect ==
    IF updateTrigger > boardsLastUpdateRef
    THEN /\ boardsLastUpdateRef' = updateTrigger
         /\ boardsRefetches' = boardsRefetches + 1
    ELSE UNCHANGED <<boardsLastUpdateRef, boardsRefetches>>

\* the client calls the onMessage option with a decoded value
HandleMessage(message, b) ==
    /\ href = "/board"
    /\ Tick(b)
    /\ delivered' = Append(delivered, message)
    /\ onMessageOption(kind, message)
    /\ UNCHANGED <<kind, sockets, reconnectAttempts, isConnecting, timers, stopped>>
    /\ UNCHANGED hist
    /\ UNCHANGED <<received, wire, sent, sendCalls, uncaught>>
    /\ UNCHANGED <<srv, hook>>

\* a component calls clearUpdates()
ClearUpdates(b) ==
    /\ href = "/board"
    /\ Tick(b)
    /\ boardUpdates' = << >>
    /\ cleared' = Len(delivered)
    /\ UNCHANGED <<invalidated, lastUpdateRef, refetches, href, boards>>
    /\ UNCHANGED <<cli, srv, hook>>

\* a component calls triggerUpdate()
TriggerUpdate(b) ==
    /\ href = "/board"
    /\ Tick(b)
    /\ updateTrigger' = updateTrigger + 1
    /\ UNCHANGED <<boardUpdates, invalidated, lastUpdateRef, refetches, href, cleared,
                   boardsLastUpdateRef, boardsRefetches, observed>>
    /\ UNCHANGED <<cli, srv, hook>>

\* a render of the components that use the two hooks: their refetch effects
\* run, whether or not updateTrigger changed since the render before
Render(b) ==
    /\ href = "/board"
    /\ Tick(b)
    /\ refetchEffect
    /\ boardsRefetchEffect
    /\ observed' = updateTrigger
    /\ UNCHANGED <<boardUpdates, invalidated, href, cleared, updateTrigger>>
    /\ UNCHANGED <<cli, srv, hook>>

InitApp ==
    /\ Fresh
    /\ kind = "board"
    /\ \E n \in {0, 49} :
          /\ delivered = Prefill(n)
          /\ boardUpdates = Types(Prefill(n))

NextApp ==
    LET b == Budget(MaxLive, TRUE, MaxAppSteps)
    IN  \/ \E message \in Values : HandleMessage(message, b)
        \/ ClearUpdates(b)
        \/ TriggerUpdate(b)
        \/ Render(b)

SpecApp == InitApp /\ [][NextApp]_vars

-----------------------------------------------------------------------------
(* The server: Session, Room Registry, User Index and Broadcast Relay.     *)
(* An envelope is named by the call that published it: the i-th call       *)
(* publishes envelope i; the welcome message is envelope 0.                *)

\* the user the token of a connection request belongs to
owner(s) == IF s = "C" THEN "u2" ELSE "u1"

\* the requests are served in the order A, B, C
rank(s) == CASE s = "A" -> 1 [] s = "B" -> 2 [] OTHER -> 3

Turn(s, b) == \A x \in b.sessions : rank(x) < rank(s) => pc[x] # "request"

\* the welcome message of an endpoint
welcome_message == 0


\* is_websocket_connected(websocket): client_state.name != 'DISCONNECTED'
is_websocket_connected(s) == state[s] # "CLOSED"

\* what a send on session s does: it raises when the connection is not
\* OPEN, drops when the outbound queue is full, and queues otherwise
send_text(s) ==
    CASE state[s] # "OPEN" -> "error"
      [] Len(queue[s]) >= MaxQueue -> "full"
      [] OTHER -> "queued"

\* the guarded send without the except block: a send error leaves it
deliverNoExcept(s, e) ==
    LET r == IF is_websocket_connected(s) THEN send_text(s) ELSE "skipped"
    IN  /\ queue' = IF r = "queued" THEN [queue EXCEPT ![s] = Append(@, e)] ELSE queue
        /\ failures' = IF r # "queued" THEN [failures EXCEPT ![s] = @ + 1] ELSE failures
        /\ raised' = (raised \/ r = "error")

\* the guarded send that queues beyond the queue's capacity
deliverNoLimit(s, e) ==
    LET r == IF is_websocket_connected(s) /\ state[s] = "OPEN" THEN "queued" ELSE "skipped"
    IN  /\ queue' = IF r = "queued" THEN [queue EXCEPT ![s] = Append(@, e)] ELSE queue
        /\ failures' = IF r # "queued" THEN [failures EXCEPT ![s] = @ + 1] ELSE failures
        /\ UNCHANGED raised

\* the guarded send of envelope e to session s: the state check, the send
\* inside try, and the except block that logs; a delivery that did not queue
\* is recorded for the session
deliver(s, e) ==
    LET r == IF is_websocket_connected(s) THEN send_text(s) ELSE "skipped"
    IN  /\ queue' = IF r = "queued" THEN [queue EXCEPT ![s] = Append(@, e)] ELSE queue
        /\ failures' = IF r # "queued" THEN [failures EXCEPT ![s] = @ + 1] ELSE failures
        /\ UNCHANGED raised

\* a connection request of session s is accepted: the token is valid, the
\* session becomes OPEN and is entered in the User Index
Accept(s, b) ==
    /\ pc[s] = "request"
    /\ Turn(s, b)
    /\ state' = [state EXCEPT ![s] = "OPEN"]
    /\ pc' = [pc EXCEPT ![s] = "welcome"]
    /\ userIndex' = [userIndex EXCEPT ![owner(s)] = @ \cup {s}]
    /\ UNCHANGED <<alive, joined, members, queue, transport, failures, cleanups, calls, raised>>
    /\ Tick(b)
    /\ UNCHANGED <<cli, hook, app>>

\* a connection request of session s is rejected: the token is invalid, the
\* session never becomes OPEN and no registry entry is made
Reject(s, b) ==
    /\ pc[s] = "request"
    /\ Turn(s, b)
    /\ s \in b.faulty
    /\ state' = [state EXCEPT ![s] = "CLOSED"]
    /\ pc' = [pc EXCEPT ![s] = "rejected"]
    /\ UNCHANGED <<alive, joined, members, userIndex, queue, transport, failures,
                   cleanups, calls, raised>>
    /\ Tick(b)
    /\ UNCHANGED <<cli, hook, app>>

\* what the send of the welcome message does: it raises when the peer is
\* gone, and is a send on the session otherwise
welcome_send(s) == IF ~alive[s] THEN "error" ELSE send_text(s)

\* the welcome send without try and except: its error leaves the endpoint
SendWelcomeNoTry(s, b) ==
    /\ pc[s] = "welcome"
    /\ LET r == welcome_send(s)
       IN  /\ queue' = IF r = "queued" THEN [queue EXCEPT ![s] = Append(@, welcome_message)]
                                       ELSE queue
           /\ failures' = IF r # "queued" THEN [failures EXCEPT ![s] = @ + 1] ELSE failures
           /\ raised' = (raised \/ r = "error")
    /\ pc' = [pc EXCEPT ![s] = "loop"]
    /\ UNCHANGED <<state, alive, joined, members, userIndex, transport, cleanups, calls>>
    /\ Tick(b)
    /\ UNCHANGED <<cli, hook, app>>

\* the endpoint sends the welcome message inside try; the except block
\* logs and the endpoint goes on to its message loop
SendWelcome(s, b) ==
    /\ pc[s] = "welcome"
    /\ LET r == welcome_send(s)
       IN  /\ queue' = IF r = "queued" THEN [queue EXCEPT ![s] = Append(@, welcome_message)]
                                       ELSE queue
           /\ failures' = IF r # "queued" THEN [failures EXCEPT ![s] = @ + 1] ELSE failures
           /\ UNCHANGED raised
    /\ pc' = [pc EXCEPT ![s] = "loop"]
    /\ UNCHANGED <<state, alive, joined, members, userIndex, transport, cleanups, calls>>
    /\ Tick(b)
    /\ UNCHANGED <<cli, hook, app>>

\* join that enters the session in the room and leaves the session's own
\* set of rooms as it is
joinedOneWay(r, s) ==
    [members |-> [members EXCEPT ![r] = @ \cup {s}],
     joined  |-> joined]

\* the registry after join(roomId, session): the session in the room's
\* member set and the room in the session's joined-rooms set
joinedBoth(r, s) ==
    [members |-> [members EXCEPT ![r] = @ \cup {s}],
     joined  |-> [joined EXCEPT ![s] = @ \cup {r}]]

\* join(roomId, session)
join(r, s) ==
    /\ members' = joinedBoth(r, s).members
    /\ joined' = joinedBoth(r, s).joined

\* leave(roomId, session)
leave(r, s) ==
    /\ members' = [members EXCEPT ![r] = @ \ {s}]
    /\ joined' = [joined EXCEPT ![s] = @ \ {r}]

\* leaveAll(session): out of every room and out of the User Index
leaveAll(s) ==
    /\ members' = [r \in Rooms |-> members[r] \ {s}]
    /\ joined' = [joined EXCEPT ![s] = {}]
    /\ userIndex' = [u \in Users |-> userIndex[u] \ {s}]

\* the endpoint of session s joins it to room r
Join(r, s, b) ==
    /\ pc[s] \in {"welcome", "loop"}
    /\ r \in b.rooms[s]
    /\ join(r, s)
    /\ UNCHANGED <<state, pc, alive, userIndex, queue, transport, failures, cleanups,
                   calls, raised>>
    /\ Tick(b)
    /\ UNCHANGED <<cli, hook, app>>

\* the endpoint of session s takes it out of room r
Leave(r, s, b) ==
    /\ pc[s] \in {"welcome", "loop"}
    /\ r \in joined[s]
    /\ leave(r, s)
    /\ UNCHANGED <<state, pc, alive, userIndex, queue, transport, failures, cleanups,
                   calls, raised>>
    /\ Tick(b)
    /\ UNCHANGED <<cli, hook, app>>

\* the peer of session s goes away; the server has not noticed yet
PeerGone(s, b) ==
    /\ pc[s] \in {"welcome", "loop"}
    /\ alive[s]
    /\ s \in b.faulty
    /\ alive' = [alive EXCEPT ![s] = FALSE]
    /\ UNCHANGED <<state, pc, joined, members, userIndex, queue, transport, failures,
                   cleanups, calls, raised>>
    /\ Tick(b)
    /\ UNCHANGED <<cli, hook, app>>

\* an explicit disconnect request for session s: CLOSING, and what is
\* queued is discarded
ServerClose(s, b) ==
    /\ pc[s] = "loop"
    /\ state[s] = "OPEN"
    /\ s \in b.faulty
    /\ state' = [state EXCEPT ![s] = "CLOSING"]
    /\ queue' = [queue EXCEPT ![s] = << >>]
    /\ UNCHANGED <<pc, alive, joined, members, userIndex, transport, failures, cleanups,
                   calls, raised>>
    /\ Tick(b)
    /\ UNCHANGED <<cli, hook, app>>

\* the write loop that takes the envelope queued last
FlushLast(s, b) ==
    /\ state[s] = "OPEN"
    /\ queue[s] # << >>
    /\ IF alive[s]
       THEN /\ transport' = [transport EXCEPT ![s] = Append(@, queue[s][Len(queue[s])])]
            /\ queue' = [queue EXCEPT ![s] = SubSeq(@, 1, Len(@) - 1)]
            /\ UNCHANGED <<state, failures>>
       ELSE /\ state' = [state EXCEPT ![s] = "CLOSED"]
            /\ queue' = [queue EXCEPT ![s] = << >>]
            /\ failures' = [failures EXCEPT ![s] = @ + 1]
            /\ UNCHANGED transport
    /\ UNCHANGED <<pc, alive, joined, members, userIndex, cleanups, calls, raised>>
    /\ Tick(b)
    /\ UNCHANGED <<cli, hook, app>>

\* the write loop of an OPEN session s takes the head of its queue and
\* writes it to the transport; a write to a peer that is gone is an error:
\* the session is CLOSED and what is queued is discarded
Flush(s, b) ==
    /\ state[s] = "OPEN"
    /\ queue[s] # << >>
    /\ IF alive[s]
       THEN /\ transport' = [transport EXCEPT ![s] = Append(@, Head(queue[s]))]
            /\ queue' = [queue EXCEPT ![s] = Tail(@)]
            /\ UNCHANGED <<state, failures>>
       ELSE /\ state' = [state EXCEPT ![s] = "CLOSED"]
            /\ queue' = [queue EXCEPT ![s] = << >>]
            /\ failures' = [failures EXCEPT ![s] = @ + 1]
            /\ UNCHANGED transport
    /\ UNCHANGED <<pc, alive, joined, members, userIndex, cleanups, calls, raised>>
    /\ Tick(b)
    /\ UNCHANGED <<cli, hook, app>>

\* the message loop of session s finds the connection gone (the state
\* check, or WebSocketDisconnect) and breaks
Receive(s, b) ==
    /\ pc[s] = "loop"
    /\ state[s] # "OPEN" \/ ~alive[s]
    /\ state' = [state EXCEPT ![s] = "CLOSED"]
    /\ queue' = [queue EXCEPT ![s] = << >>]
    /\ pc' = [pc EXCEPT ![s] = "finally"]
    /\ UNCHANGED <<alive, joined, members, userIndex, transport, failures, cleanups,
                   calls, raised>>
    /\ Tick(b)
    /\ UNCHANGED <<cli, hook, app>>

\* the finally block without its try and except
CleanupNoExcept(s, err, b) ==
    /\ pc[s] = "finally"
    /\ leaveAll(s)
    /\ cleanups' = [cleanups EXCEPT ![s] = @ + 1]
    /\ pc' = [pc EXCEPT ![s] = "done"]
    /\ raised' = (raised \/ err)
    /\ UNCHANGED <<state, alive, queue, transport, failures, calls>>
    /\ Tick(b)
    /\ UNCHANGED <<cli, hook, app>>

\* the finally block of the endpoint of session s: the cleanup, and the
\* except block that logs when the cleanup reports an error (err)
Cleanup(s, err, b) ==
    /\ pc[s] = "finally"
    /\ leaveAll(s)
    /\ cleanups' = [cleanups EXCEPT ![s] = @ + 1]
    /\ pc' = [pc EXCEPT ![s] = "done"]
    /\ UNCHANGED <<state, alive, queue, transport, failures, calls, raised>>
    /\ Tick(b)
    /\ UNCHANGED <<cli, hook, app>>

\* a fan-out call to every registered session, whatever its room or user
CallEveryone(k, target, snap) ==
    [kind |-> k, target |-> target, snap |-> UNION {userIndex[u] : u \in Users},
     todo |-> UNION {userIndex[u] : u \in Users},
     after |-> {i \in DOMAIN calls : calls[i].todo = {}}]

\* a fan-out call: its target, the snapshot of the target's sessions taken
\* at call time, the sessions delivery is still to be attempted to, and the
\* calls that had returned when it was made
Call(k, target, snap) ==
    [kind |-> k, target |-> target, snap |-> snap, todo |-> snap,
     after |-> {i \in DOMAIN calls : calls[i].todo = {}}]

\* publish(roomId, envelope) is called: the snapshot of the room's members
Publish(r, b) ==
    /\ Len(calls) < MaxCalls
    /\ calls' = Append(calls, Call("room", r, members[r]))
    /\ UNCHANGED <<state, pc, alive, joined, members, userIndex, queue, transport,
                   failures, cleanups, raised>>
    /\ Tick(b)
    /\ UNCHANGED <<cli, hook, app>>

\* notifyUser that finds the user's sessions through the rooms
NotifyUserViaRooms(u, b) ==
    /\ Len(calls) < MaxCalls
    /\ calls' = Append(calls, Call("user", u, {s \in UNION {members[r] : r \in Rooms} :
                                                  owner(s) = u}))
    /\ UNCHANGED <<state, pc, alive, joined, members, userIndex, queue, transport,
                   failures, cleanups, raised>>
    /\ Tick(b)
    /\ UNCHANGED <<cli, hook, app>>

\* notifyUser(userId, envelope) is called: the snapshot of the user's sessions
NotifyUser(u, b) ==
    /\ Len(calls) < MaxCalls
    /\ calls' = Append(calls, Call("user", u, userIndex[u]))
    /\ UNCHANGED <<state, pc, alive, joined, members, userIndex, queue, transport,
                   failures, cleanups, raised>>
    /\ Tick(b)
    /\ UNCHANGED <<cli, hook, app>>

\* the fan-out that stops at the first delivery that fails
DeliverToAbort(c, s, b) ==
    /\ s \in calls[c].todo
    /\ deliver(s, c)
    /\ calls' = [calls EXCEPT ![c].todo = IF queue' = queue THEN {} ELSE @ \ {s}]
    /\ UNCHANGED <<state, pc, alive, joined, members, userIndex, transport, cleanups>>
    /\ Tick(b)
    /\ UNCHANGED <<cli, hook, app>>

\* the fan-out of call c attempts the delivery to session s of its snapshot;
\* the call returns when it was attempted to each
DeliverTo(c, s, b) ==
    /\ s \in calls[c].todo
    /\ deliver(s, c)
    /\ calls' = [calls EXCEPT ![c].todo = @ \ {s}]
    /\ UNCHANGED <<state, pc, alive, joined, members, userIndex, transport, cleanups>>
    /\ Tick(b)
    /\ UNCHANGED <<cli, hook, app>>

\* the steps of the server for the sessions of b
Server(b) ==
    \/ \E s \in b.sessions : Accept(s, b)
    \/ \E s \in b.sessions : Reject(s, b)
    \/ \E s \in b.sessions : SendWelcome(s, b)
    \/ \E r \in Rooms, s \in b.sessions : Join(r, s, b)
    \/ \E r \in Rooms, s \in b.sessions : Leave(r, s, b)
    \/ \E s \in b.sessions : PeerGone(s, b)
    \/ \E s \in b.sessions : ServerClose(s, b)
    \/ \E s \in b.sessions : Flush(s, b)
    \/ \E s \in b.sessions : Receive(s, b)
    \/ \E s \in b.sessions, err \in BOOLEAN : Cleanup(s, err, b)
    \/ \E r \in b.boards : Publish(r, b)
    \/ \E u \in b.users : NotifyUser(u, b)
    \/ \E c \in DOMAIN calls, s \in b.sessions : DeliverTo(c, s, b)

InitSrv == Init /\ kind = "board"

(* The server specification: three connections, A and B on the first board *)
(* and C on the second, of which A may fail; the first board and user u1   *)
(* are published to; behaviours of at most MaxSrvSteps steps.              *)
NextSrv ==
    Server(SrvBudget(Sessions, {"A"},
                     [s \in Sessions |-> IF s = "C" THEN {"board-2"} ELSE {"board-1"}],
                     {"board-1"}, {"u1"}, TRUE, MaxSrvSteps))

SpecSrv == InitSrv /\ [][NextSrv]_vars

(* The session specification: one connection, which opens both boards and  *)
(* may fail; behaviours of any length.                                     *)
SessBudget == SrvBudget({"A"}, {"A"}, [s \in Sessions |-> Rooms], Rooms, Users, FALSE, 0)

NextSess == Server(SessBudget)

SpecSess == InitSrv /\ [][NextSess]_vars

\* the steps of the endpoint flow of session s once it is accepted
Endpoint(s, b) ==
    \/ SendWelcome(s, b)
    \/ Receive(s, b)
    \/ \E err \in BOOLEAN : Cleanup(s, err, b)

(* The session specification with an endpoint flow that keeps running.     *)
SpecSessFair == SpecSess /\ WF_vars(Endpoint("A", SessBudget))

-----------------------------------------------------------------------------
(* Vocabulary of the properties. *)

\* close codes that signal an authentication or authorization rejection
AuthCodes(k) == IF k = "board" THEN {4001, 4003} ELSE {4001}

\* close codes after which no retry is specified: normal closure and rejection
NoRetryCodes(k) == {1000} \cup AuthCodes(k)

\* this step is a close handler: a socket's close event was dispatched
ClosedNow == Live(sockets') < Live(sockets)

\* this step is an error handler: the close event of the same task is next
ErrorNow == ~Dispatching /\ Dispatching'

\* this step issued a connection attempt: a WebSocket was created
Created == Connecting(sockets') > Connecting(sockets)

\* the latest close event was a closure the properties call transient, and
\* no socket opened since
LastWasFailure ==
    /\ lastClose # 0
    /\ lastClose \notin NoRetryCodes(kind)
    /\ failCount >= 1

\* this step is a send() call
SendNow == sendCalls' = sendCalls + 1

\* this step is a message handler for the frame that became the last of `received`
ArrivedNow == Len(received') = Len(received) + 1

-----------------------------------------------------------------------------
(* C1: a close event with an authentication code (4001 for both clients,   *)
(* 4003 for the board client) is terminal whatever the attempt counter is: *)
(* its handler sets no timer, creates no socket and leaves the counter,    *)
(* and no pending timer was ever set by such a closure.                    *)
C1_AuthCloseTerminal ==
    /\ [](\A c \in AuthCodes(kind) : ~BagIn(c, timers))
    /\ [][(ClosedNow /\ lastClose' \in AuthCodes(kind))
            => /\ timers' = timers
               /\ reconnectAttempts' = reconnectAttempts
               /\ ~Created]_vars

\* the board client, after failures, has its last socket closed with 4003:
\* nothing is alive and nothing is pending
C1_Witness ==
    /\ kind = "board"
    /\ lastClose = 4003
    /\ reconnectAttempts >= 1
    /\ timers = EmptyBag
    /\ Live(sockets) = 0

(* C2: a close event with code 1000 is terminal: its handler sets no       *)
(* timer and creates no socket, and no pending timer was set by a normal   *)
(* closure.                                                                *)
C2_NormalCloseTerminal ==
    /\ [](~BagIn(1000, timers))
    /\ [][(ClosedNow /\ lastClose' = 1000)
            => /\ timers' = timers
               /\ reconnectAttempts' = reconnectAttempts
               /\ ~Created]_vars

\* after disconnect() the socket closed with 1000 and the client is at rest
C2_Witness ==
    /\ stopped
    /\ lastClose = 1000
    /\ timers = EmptyBag
    /\ sockets = EmptyBag

(* C3: stopping is terminal: once disconnect() was called (and connect()   *)
(* not called again by a caller), the client makes no connection attempt   *)
(* of its own, that is, no reconnect timer of its creates a socket.  (A    *)
(* second disconnect() finds this.ws null and is a step that changes       *)
(* nothing.)                                                               *)
C3_StopIsTerminal ==
    [][stopped => ~(Created /\ timers' # timers)]_vars

ClaimedDelay(k) == reconnectDelay * Pow2(Min(k - 1, 4))

C6_OpenResets ==
    /\ (prevFails >= 0 /\ failCount = 0) => reconnectAttempts = 0
    /\ (prevFails >= 0 /\ failCount = 1 /\ LastWasFailure) => lastDelay = reconnectDelay

\* three failures, an open, and the first failure after it
C6_Witness ==
    /\ prevFails >= 3
    /\ failCount = 1
    /\ LastWasFailure
    /\ lastDelay = reconnectDelay
    /\ reconnectAttempts = 1

-----------------------------------------------------------------------------
(* Properties of receiving and sending, under SpecMsg. *)

\* the values of the frames of fs that decode, in the order of fs
RECURSIVE Decoded(_)
Decoded(fs) ==
    IF fs = << >> THEN << >>
    ELSE LET r == JSONParse(Head(fs))
         IN  (IF r.ok THEN <<r.val>> ELSE << >>) \o Decoded(Tail(fs))

(* C8: the handler was called exactly once for every frame that decoded,   *)
(* with the decoded value, in arrival order, whatever the value's type     *)
(* field is.                                                               *)
C8_EveryDecodedFrameDelivered ==
    delivered = Decoded(received)

\* an envelope of an unknown type and then one of a known type were delivered
C8_Witness ==
    /\ received = <<FrameUnknown, FrameKnown>>
    /\ delivered = <<JSONParse(FrameUnknown).val, JSONParse(FrameKnown).val>>

(* C9: a frame that does not decode is dropped: no handler call, no        *)
(* exception, no change to the sockets, the timers, the attempt count or   *)
(* isConnecting; a frame that decodes is delivered also after a dropped    *)
(* one.                                                                    *)
C9_MalformedFrameDropped ==
    [][ArrivedNow =>
         LET r == JSONParse(received'[Len(received')])
         IN  /\ ~r.ok => UNCHANGED <<delivered, uncaught, sockets, timers,
                                     reconnectAttempts, isConnecting>>
             /\ (r.ok /\ \E i \in DOMAIN received : ~JSONParse(received[i]).ok)
                   => delivered' = Append(delivered, r.val)]_vars

\* a malformed frame was dropped, the socket is still open and the next frame was delivered
C9_Witness ==
    /\ received = <<FrameBad, FrameKnown>>
    /\ delivered = <<JSONParse(FrameKnown).val>>
    /\ isConnected
    /\ ~uncaught

(* C10: send(message) writes exactly one frame, the encoded message, when  *)
(* this.ws is OPEN; in every other state it writes nothing and throws      *)
(* nothing; nothing is written outside a send() call (no queue).           *)
C10_SendGuard ==
    [][/\ SendNow =>
            /\ IF isConnected
               THEN \E m \in Messages : wire' = Append(wire, JSONStringify(m))
               ELSE wire' = wire
            /\ uncaught' = uncaught
            /\ UNCHANGED <<sockets, timers, reconnectAttempts, isConnecting>>
       /\ ~SendNow => wire' = wire]_vars

\* of two send() calls one was dropped and one was written
C10_Witness ==
    /\ sendCalls = 2
    /\ Len(wire) = 1
    /\ ~uncaught
    /\ isConnected

-----------------------------------------------------------------------------
(* Vocabulary of the properties of the server. *)

\* the envelopes of sequence q
Range(q) == {q[i] : i \in DOMAIN q}

\* this step wrote to the transport of session s
Wrote(s) == transport'[s] # transport[s]

\* this step put an envelope in the outbound queue of session s
Queued(s) == Len(queue'[s]) > Len(queue[s])

\* call c returned: delivery was attempted to every session of its snapshot
Returned(c) == calls[c].todo = {}

-----------------------------------------------------------------------------
(* Properties of a session, under SpecSess. *)

-----------------------------------------------------------------------------
(* Properties of the fan-out, under SpecSrv. *)

\* how often envelope e is in sequence q
Count(e, q) == Cardinality({i \in DOMAIN q : q[i] = e})

\* how often session s has got envelope e: written to it or queued for it
Got(e, s) == Count(e, transport[s]) + Count(e, queue[s])

\* session s has been open since it was accepted and its peer is there
StaysOpen(s) == state[s] = "OPEN" /\ alive[s]

\* this step made call c
CalledNow(c) == Len(calls) = c - 1 /\ Len(calls') = c

\* this step is the delivery attempt of call c to session s
AttemptNow(c, s) ==
    /\ c \in DOMAIN calls
    /\ s \in calls[c].todo
    /\ calls'[c].todo = calls[c].todo \ {s}

\* the sessions a call of kind k to target x is for
Audience(k, x) == IF k = "room" THEN members[x] ELSE userIndex[x]

\* no session got an envelope more than once, and only sessions of the
\* call's snapshot, after the attempt, got it
OnlySnapshot(k) ==
    \A c \in DOMAIN calls : \A s \in Sessions :
        calls[c].kind = k =>
            /\ Got(c, s) <= 1
            /\ Got(c, s) = 1 => s \in calls[c].snap \ calls[c].todo

\* a call of kind k takes as its snapshot the sessions of its target at
\* call time, and afterwards the snapshot is fixed and the sessions still
\* to be attempted only shrink
SnapshotAtCall(k) ==
    \A c \in 1..MaxCalls :
        /\ (CalledNow(c) /\ calls'[c].kind = k)
              => /\ calls'[c].snap = Audience(k, calls'[c].target)
                 /\ calls'[c].todo = calls'[c].snap
        /\ (c \in DOMAIN calls /\ calls[c].kind = k)
              => /\ calls'[c].snap = calls[c].snap
                 /\ calls'[c].todo \subseteq calls[c].todo

(* C12, as claimed: publish(R, e) delivers to exactly the members of R at  *)
(* call time: each gets e at most once, and exactly once if it stays open; *)
(* no other session, and no session that joins R later, gets it.           *)
C12_ExactlyMembers ==
    /\ OnlySnapshot("room")
    /\ \A c \in DOMAIN calls : \A s \in calls[c].snap :
           (calls[c].kind = "room" /\ Returned(c) /\ StaysOpen(s)) => Got(c, s) = 1

(* C12, amended: publish(R, e) attempts delivery once to exactly the       *)
(* members of R at call time; each gets e at most once, and the attempt    *)
(* queues e exactly when the member is OPEN and its outbound queue has     *)
(* room; no other session, and no session that joins R later, gets it.     *)
C12_AttemptedToMembers ==
    /\ []OnlySnapshot("room")
    /\ [][SnapshotAtCall("room")]_vars
    /\ [][\A c \in DOMAIN calls : \A s \in Sessions :
            (calls[c].kind = "room" /\ AttemptNow(c, s)) =>
                queue'[s] = IF state[s] = "OPEN" /\ Len(queue[s]) < MaxQueue
                            THEN Append(queue[s], c)
                            ELSE queue[s]]_vars

\* A and B, the members of board-1 at call time, each received the envelope
\* once; C, open and no member, received nothing of it
C12_Witness ==
    \E c \in DOMAIN calls :
        /\ calls[c].kind = "room"
        /\ calls[c].snap = {"A", "B"}
        /\ Returned(c)
        /\ Count(c, transport["A"]) = 1
        /\ Count(c, transport["B"]) = 1
        /\ state["C"] = "OPEN"
        /\ Got(c, "C") = 0

-----------------------------------------------------------------------------
(* Properties of the registry, under SpecSess. *)

\* session s is in no room and in no entry of the User Index
Unregistered(s) ==
    /\ joined[s] = {}
    /\ \A r \in Rooms : s \notin members[r]
    /\ \A u \in Users : s \notin userIndex[u]

C14_MembershipConsistent ==
    \A s \in Sessions : \A r \in Rooms :
        /\ s \in members[r] <=> r \in joined[s]
        /\ r \in joined[s] =>
              /\ joinedBoth(r, s).members = members
              /\ joinedBoth(r, s).joined = joined

\* A joined both boards and left the first (it was a member of it when an
\* envelope was published there): it is a member of the second only
C14_Witness ==
    /\ joined["A"] = {"board-2"}
    /\ members["board-2"] = {"A"}
    /\ members["board-1"] = {}
    /\ pc["A"] = "loop"
    /\ \E c \in DOMAIN calls :
           calls[c].kind = "room" /\ calls[c].target = "board-1" /\ calls[c].snap = {"A"}

-----------------------------------------------------------------------------
(* Properties of partial failure, under SpecSrv. *)

\* this step recorded a failed delivery for session s
FailedNow(s) == failures'[s] = failures[s] + 1

(* C15: a delivery that fails (the session is not OPEN, its queue is full, *)
(* or the write finds the peer gone) is recorded for that session only:    *)
(* no other session's queue, transport, state or count changes, every      *)
(* other session of every snapshot is still to be attempted, the step      *)
(* does not wait, and no error is raised.                                  *)
C15_PartialFailureTolerant ==
    /\ [](~raised)
    /\ [][\A s \in Sessions : FailedNow(s) =>
            /\ \A t \in Sessions \ {s} :
                  /\ failures'[t] = failures[t]
                  /\ queue'[t] = queue[t]
                  /\ transport'[t] = transport[t]
                  /\ state'[t] = state[t]
            /\ \A c \in DOMAIN calls : calls[c].todo \ {s} \subseteq calls'[c].todo
            /\ ~Wrote(s) /\ ~Queued(s)]_vars
    /\ [][\A s \in Sessions : \A c \in DOMAIN calls :
            (AttemptNow(c, s) /\ (state[s] # "OPEN" \/ Len(queue[s]) >= MaxQueue))
                => FailedNow(s)]_vars

\* a publish to A and B returned: A, closed by then, did not get the
\* envelope and the failure was counted; B received it
C15_Witness ==
    \E c \in DOMAIN calls :
        /\ calls[c].snap = {"A", "B"}
        /\ Returned(c)
        /\ state["A"] # "OPEN"
        /\ Got(c, "A") = 0
        /\ failures["A"] >= 1
        /\ failures["B"] = 0
        /\ Count(c, transport["B"]) = 1
        /\ ~raised

-----------------------------------------------------------------------------
(* Properties of the outbound queue, under SpecSess. *)

\* the envelopes session s received and those queued for it, in order
Stream(s) == transport[s] \o queue[s]

\* envelope e comes before envelope f in sequence q
Before(e, f, q) == \E i, j \in DOMAIN q : i < j /\ q[i] = e /\ q[j] = f

(* C16: when publish(r, e1) returned before publish(r, e2) was called, no  *)
(* session has e2 before e1, on its transport or in its queue; the queue   *)
(* of a session that is not OPEN is empty, nothing is written to such a    *)
(* session, and what was queued for a session reaches no other session.    *)
C16_PerSessionFifo ==
    /\ [](\A s \in Sessions : \A c1, c2 \in DOMAIN calls :
            (/\ c1 \in calls[c2].after
             /\ calls[c1].kind = "room" /\ calls[c2].kind = "room"
             /\ calls[c1].target = calls[c2].target)
                => ~Before(c2, c1, Stream(s)))
    /\ [](\A s \in Sessions : state[s] # "OPEN" => queue[s] = << >>)
    /\ [](\A s \in Sessions : \A c \in DOMAIN calls : Got(c, s) >= 1 => s \in calls[c].snap)
    /\ [][\A s \in Sessions :
            /\ state[s] # "OPEN" => ~Wrote(s)
            /\ Wrote(s) => /\ queue[s] # << >>
                           /\ transport'[s] = Append(transport[s], Head(queue[s]))
                           /\ queue'[s] = Tail(queue[s])]_vars

\* two envelopes published to the same room, the second after the first
\* call returned, were received by A in that order
C16_Witness ==
    \E c1, c2 \in DOMAIN calls :
        /\ c1 \in calls[c2].after
        /\ calls[c1].kind = "room" /\ calls[c2].kind = "room"
        /\ calls[c1].target = calls[c2].target
        /\ Before(c1, c2, transport["A"])
        /\ state["A"] = "OPEN"

(* C17: when the client is gone between accept and the welcome send, the   *)
(* welcome send fails without an error leaving the endpoint: the failure   *)
(* is counted, nothing is queued or written, the endpoint goes on to its   *)
(* message loop, and its cleanup runs: the session ends in no room and not *)
(* in the User Index.                                                      *)
C17_WelcomeProtected ==
    /\ [](~raised)
    /\ [][\A s \in Sessions :
            (pc[s] = "welcome" /\ ~alive[s] /\ pc'[s] # "welcome")
                => /\ pc'[s] = "loop"
                   /\ FailedNow(s)
                   /\ ~Queued(s) /\ ~Wrote(s)]_vars
    /\ \A s \in {"A"} :
          (pc[s] = "welcome" /\ ~alive[s])
              ~> (pc[s] = "done" /\ cleanups[s] = 1 /\ Unregistered(s))

\* A's peer went away before the welcome send: A never received anything,
\* the failure was counted, and the cleanup ran
C17_Witness ==
    /\ ~alive["A"]
    /\ transport["A"] = << >>
    /\ failures["A"] = 1
    /\ state["A"] = "CLOSED"
    /\ pc["A"] = "done"
    /\ cleanups["A"] = 1
    /\ calls = << >>
    /\ ~raised

-----------------------------------------------------------------------------
(* Properties of the user-addressed fan-out, under SpecSrv. *)

\* the sessions of user u that were accepted and whose cleanup has not run
Connected(u) == {s \in Sessions : owner(s) = u /\ pc[s] \in {"welcome", "loop", "finally"}}

(* C18, as claimed: notifyUser(u, e) delivers e to every open session of   *)
(* user u, whatever rooms it joined, and to no session of another user.    *)
C18_AllTabs ==
    /\ OnlySnapshot("user")
    /\ \A c \in DOMAIN calls : \A s \in Sessions :
           calls[c].kind = "user" =>
               /\ Got(c, s) >= 1 => owner(s) = calls[c].target
               /\ (Returned(c) /\ s \in calls[c].snap /\ StaysOpen(s)) => Got(c, s) = 1

(* C18, amended: the User Index holds for each user exactly its connected  *)
(* sessions, whatever rooms they joined; notifyUser(u, e) attempts         *)
(* delivery once to each session of u in the index at call time, the       *)
(* attempt queues e exactly when the session is OPEN and its outbound      *)
(* queue has room, and no session of another user gets e.                  *)
C18_AttemptedToTabs ==
    /\ [](\A u \in Users : userIndex[u] = Connected(u))
    /\ []OnlySnapshot("user")
    /\ [](\A c \in DOMAIN calls : \A s \in Sessions :
            (calls[c].kind = "user" /\ Got(c, s) >= 1) => owner(s) = calls[c].target)
    /\ [][SnapshotAtCall("user")]_vars
    /\ [][\A c \in DOMAIN calls : \A s \in Sessions :
            (calls[c].kind = "user" /\ AttemptNow(c, s)) =>
                queue'[s] = IF state[s] = "OPEN" /\ Len(queue[s]) < MaxQueue
                            THEN Append(queue[s], c)
                            ELSE queue[s]]_vars

\* both tabs of u1 received the notification, A a member of a board and B
\* of none; C, the open session of u2, received nothing of it
C18_Witness ==
    \E c \in DOMAIN calls :
        /\ calls[c].kind = "user"
        /\ calls[c].target = "u1"
        /\ Returned(c)
        /\ joined["A"] # {}
        /\ joined["B"] = {}
        /\ Count(c, transport["A"]) = 1
        /\ Count(c, transport["B"]) = 1
        /\ state["C"] = "OPEN"
        /\ Got(c, "C") = 0

-----------------------------------------------------------------------------
\* the socket of the instance created for the current boardId is OPEN
CurrentOpen == wsClient # 0 /\ clientIsConnected(clients[wsClient])

(* C19: while the component is mounted, the hook's isConnected is true     *)
(* exactly when the socket of the instance created for the current boardId *)
(* is OPEN, whatever open, error and close events, reconnects and boardId  *)
(* changes came before.                                                    *)
C19_IndicatorTracksSocket ==
    phase = "mounted" => (isConnectedFlag <=> CurrentOpen)

-----------------------------------------------------------------------------
\* this step is a handler call with an envelope: an object with a type
EnvelopeNow ==
    /\ ArrivedNow
    /\ Len(delivered') = Len(delivered) + 1
    /\ Member(delivered'[Len(delivered')], "type").t = "str"

\* this step triggered a refetch of the data of the channel of a client of
\* kind k: the notification queries, or the board query
Refetched(k) ==
    IF k = "global"
    THEN /\ Len(invalidated') > Len(invalidated)
         /\ "notifications" \in {invalidated'[i] : i \in (Len(invalidated) + 1)..Len(invalidated')}
    ELSE refetches' > refetches

(* C20: whenever an envelope, of whatever type, arrives on a client's      *)
(* connection and is handed to the handler, that step triggers a refetch   *)
(* of the authoritative data: the notifications on the notification        *)
(* channel, the board on the board channel.                                *)
C20_RefetchOnAnyEnvelope ==
    [][EnvelopeNow => Refetched(kind)]_vars

-----------------------------------------------------------------------------
(* C21: every value the registered handler was called with is an envelope: *)
(* an object with a string `type` member.  A frame that decodes to         *)
(* anything else (null, a number, an object without type) is not passed    *)
(* on.                                                                     *)
C21_OnlyEnvelopesDelivered ==
    \A i \in DOMAIN delivered : Member(delivered[i], "type").t = "str"

-----------------------------------------------------------------------------
\* this step is a call of the handler
HandledNow == Len(delivered') = Len(delivered) + 1

\* the value the handler was called with in this step
Handled == delivered'[Len(delivered')]

\* message is a board_deleted envelope that carries the redirect flag
RedirectFlagged(message) ==
    /\ Member(message, "type") = Top(Str("board_deleted"))
    /\ Member(message, "redirect") = Top(Bool("true"))

(* C22: a handler call navigates to the dashboard ('/') exactly when the   *)
(* value is a board_deleted envelope carrying the redirect flag; a value   *)
(* of any other type, board_deleted without the flag, and every step that  *)
(* is no handler call leave the location as it is.                         *)
C22_RedirectOnlyOnBoardDeleted ==
    [][IF HandledNow
       THEN href' = (IF RedirectFlagged(Handled) THEN "/" ELSE href)
       ELSE href' = href]_vars

\* board_deleted without the flag and the flag on another type were handled
\* on the board page, and then board_deleted with the flag navigated away
C22_Witness ==
    /\ Len(delivered) = 3
    /\ delivered[1] = Envelope("board_deleted")
    /\ delivered[2] = WithRedirect("card_created", "true")
    /\ delivered[3] = WithRedirect("board_deleted", "true")
    /\ href = "/"

-----------------------------------------------------------------------------
(* C23: envelope round trip.  Every frame send() wrote decodes, and        *)
(* decodes to the message that send() was called with; when the frame      *)
(* comes back, the handler is called with a value equal to that message.   *)
C23_RoundTrip ==
    /\ \A i \in DOMAIN wire : JSONParse(wire[i]) = [ok |-> TRUE, val |-> sent[i]]
    /\ \A j \in DOMAIN received :
           \A i \in DOMAIN wire : received[j] = wire[i] => delivered[j] = sent[i]

\* an envelope with a null field and one with a number field, the type
\* member second, were sent, came back and were handed on as they were sent
C23_Witness ==
    /\ Len(sent) = 2
    /\ sent[1] = Obj(<<[k |-> "type", v |-> Str("card_move")], [k |-> "card_id", v |-> Null]>>)
    /\ sent[2] = Obj(<<[k |-> "card_id", v |-> Num(7)], [k |-> "type", v |-> Str("card_update")]>>)
    /\ delivered = sent

-----------------------------------------------------------------------------
(* C24: the attempt counter stays between 0 and maxReconnectAttempts, and  *)
(* the reconnect timers create at most maxReconnectAttempts sockets        *)
(* without a successful open in between.                                   *)
C24_BoundedRetry ==
    /\ 0 <= reconnectAttempts
    /\ reconnectAttempts <= maxReconnectAttempts
    /\ autoAttempts <= maxReconnectAttempts

-----------------------------------------------------------------------------
(* C25: the update log holds at most 50 entries, and they are the updates  *)
(* of the envelopes handled since the latest clearUpdates(), each once and *)
(* in arrival order, the oldest dropped beyond 50; right after             *)
(* clearUpdates() the log is empty.                                        *)
SinceCleared == SubSeq(delivered, cleared + 1, Len(delivered))

C25_LogBoundedOrdered ==
    /\ Len(boardUpdates) <= maxUpdates
    /\ boardUpdates = Slice(Types(SinceCleared), maxUpdates)

\* 49 updates were in the log and two envelopes more were handled: the log
\* holds 50, its oldest entry is the second of the 49 and its newest two are
\* the two envelopes, in the order they came
C25_Witness ==
    /\ cleared = 0
    /\ Len(delivered) = 51
    /\ delivered[50] = Envelope("board_deleted")
    /\ delivered[51] = Envelope("card_created")
    /\ Len(boardUpdates) = maxUpdates
    /\ boardUpdates[1] = Top(Str("zzz"))
    /\ boardUpdates[49] = Top(Str("board_deleted"))
    /\ boardUpdates[50] = Top(Str("card_created"))

-----------------------------------------------------------------------------
(* C26: at most one socket that the instance created is CONNECTING or OPEN *)
(* at any time.                                                            *)
Active(b) ==
    LET S == {s \in BagToSet(b) : s.readyState \in {"CONNECTING", "OPEN"}}
    IN  BagCardinality([s \in S |-> b[s]])

C26_SingleSubscription == Active(sockets) <= 1

-----------------------------------------------------------------------------
(* The specification of stopping: the lifecycle, limited to MaxStopSteps   *)
(* steps, with envelopes arriving on the open sockets.                     *)

\* lifecycle steps of a behaviour of the specification of stopping
MaxStopSteps == 5

NextStop ==
    \/ Lifecycle(Budget(MaxLive, TRUE, MaxStopSteps))
    \/ \E s \in Socks : OnMessage(s, FrameKnown)

SpecStop == Init /\ [][NextStop]_vars

(* C27: once disconnect() has returned, and until a caller calls connect() *)
(* again, the onMessage handler is called for no frame that arrives.       *)
C27_NoCallbackAfterDisconnect == [][stopped => delivered' = delivered]_vars

-----------------------------------------------------------------------------
(* C28: the two clients are one reconnection state machine.  Their         *)
(* connect, disconnect, onopen, onerror and scheduleReconnect are the same *)
(* code, so they differ at most in what a close handler decides.           *)

\* the client class that is not the one of the instance
OtherKind == IF kind = "global" THEN "board" ELSE "global"

\* what the close handler of a client of class k does with a close of the
\* given code at the given count: the count it leaves and the delay of the
\* timer it sets (0: no timer)
Decision(k, code, attempts) ==
    IF ShouldReconnect(k, code, attempts)
    THEN scheduleReconnect(attempts)
    ELSE [attempts |-> attempts, delay |-> 0]

\* this close handler did what the handler of the other class does in the
\* same state with the same close code
SameAsOther ==
    LET d == Decision(OtherKind, lastClose', reconnectAttempts)
    IN  /\ reconnectAttempts' = d.attempts
        /\ lastDelay' = d.delay
        /\ (timers' # timers) <=> (d.delay # 0)

\* as stated: for every close code both classes decide the same
C28_SameMachine == [][ClosedNow => SameAsOther]_vars

\* as the code has it: for every close code but 4003 both classes decide the
\* same and set the same delay; a close with 4003 is terminal for the board
\* client, and the global client retries it like an abnormal close
C28_SameMachineBut4003 ==
    /\ [][(ClosedNow /\ lastClose' # 4003) => SameAsOther]_vars
    /\ [][(ClosedNow /\ lastClose' = 4003)
            => /\ kind = "board" => (timers' = timers /\ lastDelay' = 0)
               /\ (kind = "global" /\ reconnectAttempts < maxReconnectAttempts)
                     => /\ timers' = timers (+) One(4003)
                        /\ lastDelay' = scheduleReconnect(reconnectAttempts).delay]_vars

\* the second abnormal close in a row of a global client: it set the delay
\* that the board client sets, twice the base delay
C28_Witness ==
    /\ kind = "global"
    /\ lastClose = 1006
    /\ reconnectAttempts = 2
    /\ lastDelay = Decision("board", 1006, 1).delay
    /\ lastDelay = 2 * reconnectDelay

-----------------------------------------------------------------------------
(* C29: an exception that the onMessage handler throws stays inside        *)
(* ws.onmessage: the step leaves the sockets, the timers, the attempt      *)
(* count and isConnecting as they were and nothing is thrown out of the    *)
(* event handler; the envelopes that arrive after it are handed to the     *)
(* handler, which records them.                                            *)
C29_HandlerThrowContained ==
    [][ArrivedNow =>
         LET r == JSONParse(received'[Len(received')])
         IN  /\ (r.ok /\ Throws(r.val))
                   => /\ delivered' = Append(delivered, r.val)
                      /\ UNCHANGED <<uncaught, sockets, timers, reconnectAttempts,
                                     isConnecting, lastDelay>>
             /\ (r.ok /\ ~Throws(r.val) /\ \E j \in DOMAIN delivered : Throws(delivered[j]))
                   => /\ delivered' = Append(delivered, r.val)
                      /\ kind = "board"
                            => boardUpdates' = Append(Slice(boardUpdates, maxUpdates - 1),
                                                      Member(r.val, "type"))]_vars

\* the handler of the board client threw on null, the socket is still the
\* open one, no timer is set, and the envelope after it was handled
C29_Witness ==
    /\ kind = "board"
    /\ received = <<FrameNull, FrameKnown>>
    /\ delivered = <<JSONParse(FrameNull).val, JSONParse(FrameKnown).val>>
    /\ Throws(delivered[1])
    /\ boardUpdates = <<Member(delivered[2], "type")>>
    /\ isConnected
    /\ timers = EmptyBag
    /\ reconnectAttempts = 0
    /\ ~uncaught

-----------------------------------------------------------------------------
(* C30: in both hooks the last-seen value never decreases; the effect      *)
(* refetches once, and only, when it runs with a trigger above the         *)
(* last-seen value, which it then takes; so neither hook refetches more    *)
(* often than the trigger was incremented, and each has refetched at least *)
(* once when its effect has run after an increment.                        *)
C30_RefetchDedup ==
    [][/\ boardsLastUpdateRef' >= boardsLastUpdateRef
       /\ lastUpdateRef' >= lastUpdateRef
       /\ boardsRefetches' # boardsRefetches
             => /\ boardsRefetches' = boardsRefetches + 1
                /\ updateTrigger > boardsLastUpdateRef
                /\ boardsLastUpdateRef' = updateTrigger
       /\ refetches' # refetches
             => /\ refetches' = refetches + 1
                /\ updateTrigger > lastUpdateRef
                /\ lastUpdateRef' = updateTrigger
       /\ boardsRefetches' <= updateTrigger'
       /\ refetches' <= updateTrigger'
       /\ observed' > 0 => (boardsRefetches' >= 1 /\ refetches' >= 1)]_vars

=============================================================================
